---- MODULE Spec2Model ----
(***************************************************************************)
(* FitScore matching engine of the job-application assistant.              *)
(*                                                                         *)
(* A text is a sequence of one-character strings.  The tokenizer (_tokens, *)
(* TOKEN_RE, STOPWORDS) and the scorer (compute_fit_score) are translated  *)
(* from src/job_apply_assistant.py and work character by character, so     *)
(* that what the regular expressions glue together or split apart is       *)
(* decided by the model and not assumed.                                   *)
(***************************************************************************)
EXTENDS Integers, Sequences, FiniteSets, TLC

\* the scorer: its two arguments, its token sets, what it returns
VARIABLES jd_text, resume_md, jd_tokens, res_tokens, score, breakdown, pc

\* the extractor: the copy that runs, its argument, the response status, the
\* class of the exception raised inside, the page, the document searched, the
\* path taken, the text returned, the exception that leaves the function, and
\* the calls of requests.get, of read_text and of anything that writes
VARIABLES variant, src, fpc, status, failure, html, soup, path, result, error,
          gets, reads, writes

\* the workflows around the two functions: what an earlier call of the scorer
\* was given and returned; the position of main, the job text and the resume
\* text it holds, the reply of the generation service, the pair that
\* generate_documents returned, the files written, the lines printed and the
\* functions called so far
VARIABLES earlier, mpc, job_text, resume_text, response, documents, files,
          printed, called

\* The Streamlit applications: st.session_state, what the last run of the
\* script rendered, and the number of Generate clicks so far
VARIABLES session, rendered, run

score_vars == <<jd_text, resume_md, jd_tokens, res_tokens, score, breakdown, pc>>

fetch_vars ==
    <<variant, src, fpc, status, failure, html, soup, path, result, error,
      gets, reads, writes>>

gui_vars == <<session, rendered, run>>

app_vars ==
    <<earlier, mpc, job_text, resume_text, response, documents, files, printed,
      called, gui_vars>>

vars == <<score_vars, fetch_vars, app_vars>>

(***************************************************************************)
(* Character classes of the two regular expressions.                       *)
(***************************************************************************)
LowerLetters == <<"a", "b", "c", "d", "e", "f", "g", "h", "i", "j", "k", "l", "m", "n", "o", "p", "q", "r", "s", "t", "u", "v", "w", "x", "y", "z">>

UpperLetters == <<"A", "B", "C", "D", "E", "F", "G", "H", "I", "J", "K", "L", "M", "N", "O", "P", "Q", "R", "S", "T", "U", "V", "W", "X", "Y", "Z">>

Range(s) == {s[i] : i \in DOMAIN s}

\* [A-Za-z]
Letter == Range(LowerLetters) \cup Range(UpperLetters)

\* \d
Digit == {"0", "1", "2", "3", "4", "5", "6", "7", "8", "9"}

\* As TokenChar, without the full stop.
TokenChar_NoDot == Letter \cup Digit \cup {"+", "#", "/", "-"}

\* [A-Za-z0-9+.#/\-]
TokenChar == Letter \cup Digit \cup {"+", ".", "#", "/", "-"}

\* \s
Whitespace == {" ", "\t", "\n"}

\* str.lower() on the letters A-Z
ToLower ==
    [c \in Range(UpperLetters) |->
        LowerLetters[CHOOSE i \in DOMAIN UpperLetters : UpperLetters[i] = c]]

\* str.lower() on one character
LowerChar(c) == IF c \in DOMAIN ToLower THEN ToLower[c] ELSE c

\* str.lower()
Lower(text) == [i \in DOMAIN text |-> LowerChar(text[i])]

STOPWORDS ==
    { <<"t", "h", "e">>, <<"a", "n", "d">>, <<"f", "o", "r">>, <<"w", "i", "t", "h">>, <<"y", "o", "u">>, <<"y", "o", "u", "r">>, <<"o", "u", "r">>,
      <<"a", "r", "e">>, <<"t", "h", "i", "s">>, <<"t", "h", "a", "t">>, <<"w", "i", "l", "l">>, <<"h", "a", "v", "e">>, <<"h", "a", "s">>, <<"i", "n">>,
      <<"o", "f">>, <<"t", "o">>, <<"o", "n">>, <<"a">>, <<"a", "n">>, <<"i", "s">>, <<"b", "e">>, <<"a", "s">>,
      <<"a", "t">>, <<"o", "r">>, <<"w", "e">>, <<"b", "y">>, <<"i", "t">>, <<"f", "r", "o", "m">>, <<"t", "h", "e", "i", "r">>,
      <<"t", "h", "e", "y">>, <<"h", "i", "s">>, <<"h", "e", "r">>, <<"h", "e">>, <<"s", "h", "e">> }

(***************************************************************************)
(* TOKEN_RE.findall: leftmost, greedy, non-overlapping matches of          *)
(* [A-Za-z][A-Za-z0-9+.#/\-]{1,}.                                          *)
(***************************************************************************)
RECURSIVE RunEnd(_, _, _)
\* the last index of the run of characters of class cls that starts at i
RunEnd(text, i, cls) ==
    IF i < Len(text) /\ text[i + 1] \in cls THEN RunEnd(text, i + 1, cls) ELSE i

RECURSIVE TokenFindAll(_, _)
TokenFindAll(text, i) ==
    IF i >= Len(text) THEN <<>>
    ELSE IF text[i] \in Letter /\ text[i + 1] \in TokenChar
         THEN LET e == RunEnd(text, i + 1, TokenChar)
              IN  <<SubSeq(text, i, e)>> \o TokenFindAll(text, e + 1)
         ELSE TokenFindAll(text, i + 1)

TOKEN_RE(text) == TokenFindAll(text, 1)

IsKept(t) == t \notin STOPWORDS

LowerAll(ts) == [i \in DOMAIN ts |-> Lower(ts[i])]

\* As _tokens, the stopword filter applied before lowercasing.
tokens_FilterRaw(text) == LowerAll(SelectSeq(TOKEN_RE(text), IsKept))

\* [t.lower() for t in TOKEN_RE.findall(text) if t.lower() not in STOPWORDS]
_tokens(text) == SelectSeq(LowerAll(TOKEN_RE(text)), IsKept)

(***************************************************************************)
(* re.findall(r"(\d+)\s+years", text.lower()): the digit groups of the     *)
(* leftmost non-overlapping matches.                                       *)
(***************************************************************************)
YearsWord == <<"y", "e", "a", "r", "s">>

RECURSIVE YearsFindAll(_, _)
YearsFindAll(text, i) ==
    IF i > Len(text) THEN <<>>
    ELSE IF text[i] \in Digit
         THEN LET d == RunEnd(text, i, Digit)
                  w == RunEnd(text, d, Whitespace)
              IN  IF w > d /\ w + Len(YearsWord) <= Len(text)
                           /\ SubSeq(text, w + 1, w + Len(YearsWord)) = YearsWord
                  THEN <<SubSeq(text, i, d)>>
                           \o YearsFindAll(text, w + Len(YearsWord) + 1)
                  ELSE YearsFindAll(text, i + 1)
         ELSE YearsFindAll(text, i + 1)

years(text) == YearsFindAll(Lower(text), 1)

(***************************************************************************)
(* The scorer.                                                             *)
(***************************************************************************)
SENIORITY ==
    << <<"i", "n", "t", "e", "r", "n">>, <<"j", "u", "n", "i", "o", "r">>, <<"a", "s", "s", "o", "c", "i", "a", "t", "e">>, <<"m", "i", "d">>, <<"s", "e", "n", "i", "o", "r">>, <<"l", "e", "a", "d">>,
       <<"p", "r", "i", "n", "c", "i", "p", "a", "l">>, <<"d", "i", "r", "e", "c", "t", "o", "r">>, <<"v", "p">>, <<"c", "h", "i", "e", "f">> >>

\* round() of the non-negative rational n / d: to the nearest integer, a tie
\* to the even one.  The doubles the code rounds are n / d computed in
\* floating point; they round as n / d does for every job with fewer than 40
\* tokens (23/40*100 is the first to differ: 57.49999999999999).
Round(n, d) ==
    LET q == n \div d
        r == n % d
    IN  IF 2 * r < d THEN q
        ELSE IF 2 * r > d THEN q + 1
        ELSE IF q % 2 = 0 THEN q ELSE q + 1

\* [s for s in SENIORITY if s in toks]
SeniorityIn(toks) == SelectSeq(SENIORITY, LAMBDA s : s \in toks)

\* As keyword_score, the overlap measured against all tokens of both texts.
keyword_score_OverUnion(jd, res) ==
    Round(100 * Cardinality(jd \cap res), Cardinality(jd \cup res))

keyword_score(jd, res) == Round(100 * Cardinality(jd \cap res), Cardinality(jd))

\* As seniority_match, the terms of the resume to be those of the job.
seniority_match_SameTerms(jd, res) ==
    IF SeniorityIn(jd) = <<>> \/ SeniorityIn(jd) = SeniorityIn(res) THEN 100 ELSE 40

\* As seniority_match, any seniority term of the resume accepted.
seniority_match_AnyTerm(jd, res) ==
    IF SeniorityIn(jd) = <<>> \/ SeniorityIn(res) # <<>> THEN 100 ELSE 40

seniority_match(jd, res) ==
    LET jd_sen == SeniorityIn(jd)
        res_sen == SeniorityIn(res)
    IN  IF (jd_sen # <<>> /\ \E k \in DOMAIN jd_sen : jd_sen[k] \in Range(res_sen))
           \/ jd_sen = <<>>
        THEN 100 ELSE 40

\* As numeric_match, the figures of the two texts compared.
numeric_match_SameFigures(jd_years, res_years) ==
    IF jd_years = <<>> THEN 100 ELSE IF res_years = jd_years THEN 80 ELSE 30

numeric_match(jd_years, res_years) ==
    IF jd_years = <<>> THEN 100 ELSE IF res_years # <<>> THEN 80 ELSE 30

\* As total, the bonus given whether or not there is an overlap.
total_BonusAlways(kw, sen, num, overlap) == Round(4 * kw + 2 * sen + num + 300, 10)

\* As total, without the bonus for any overlap.
total_NoBonus(kw, sen, num, overlap) == Round(4 * kw + 2 * sen + num, 10)

\* As total, the keyword score weighted 0.5.
total_HalfKeyword(kw, sen, num, overlap) ==
    Round(5 * kw + 2 * sen + num + 300 * (IF overlap # {} THEN 1 ELSE 0), 10)

\* round(keyword_score * 0.4 + seniority_match * 0.2 + numeric_match * 0.1
\*       + 0.3 * 100 * (len(overlap) > 0))
total(kw, sen, num, overlap) ==
    Round(4 * kw + 2 * sen + num + 300 * (IF overlap # {} THEN 1 ELSE 0), 10)

EmptyBreakdown == [k \in {} |-> 0]

\* As Breakdown, the overall entry holding the keyword score.
Breakdown_OverallIsKeyword(kw, sen, num, tot) ==
    [k \in {"keyword_coverage", "seniority", "numeric", "overall"} |->
        CASE k = "keyword_coverage" -> kw
          [] k = "seniority" -> sen
          [] k = "numeric" -> num
          [] k = "overall" -> kw]

Breakdown(kw, sen, num, tot) ==
    [k \in {"keyword_coverage", "seniority", "numeric", "overall"} |->
        CASE k = "keyword_coverage" -> kw
          [] k = "seniority" -> sen
          [] k = "numeric" -> num
          [] k = "overall" -> tot]

(***************************************************************************)
(* Inputs: every concatenation of a few pieces, and the worked scenarios.  *)
(***************************************************************************)
\* the pieces of the job text and of the resume text, counted together
MaxPieces == 4

JobPieces == { <<"V", "P">>, <<"T", "h", "e">>, <<"G", "o">>, <<" ">>, <<".">>, <<"5", " ", "y", "e", "a", "r", "s">> }

ResPieces == { <<"v", "p">>, <<"t", "h", "e">>, <<"g", "o">>, <<" ">>, <<".">>, <<"5", " ", "y", "e", "a", "r", "s">> }

RECURSIVE Concats(_, _)
Concats(pieces, n) ==
    IF n = 0 THEN {<<>>}
    ELSE LET shorter == Concats(pieces, n - 1)
         IN  shorter \cup {t \o p : t \in shorter, p \in pieces}

\* The end-to-end scenario.
JobEndToEnd == <<"S", "e", "n", "i", "o", "r", " ", "P", "y", "t", "h", "o", "n", " ", "E", "n", "g", "i", "n", "e", "e", "r", ".", " ", "5", " ", "y", "e", "a", "r", "s", " ", "e", "x", "p", "e", "r", "i", "e", "n", "c", "e", " ", "w", "i", "t", "h", " ", "P", "y", "t", "h", "o", "n", " ", "a", "n", "d", " ", "A", "W", "S", " ", "r", "e", "q", "u", "i", "r", "e", "d", ".">>

ResumeEndToEnd == <<"S", "e", "n", "i", "o", "r", " ", "e", "n", "g", "i", "n", "e", "e", "r", " ", "w", "i", "t", "h", " ", "6", " ", "y", "e", "a", "r", "s", " ", "e", "x", "p", "e", "r", "i", "e", "n", "c", "e", " ", "i", "n", " ", "P", "y", "t", "h", "o", "n", " ", "a", "n", "d", " ", "A", "W", "S", ".">>

\* The seniority mismatch scenario.
JobSeniorRole == <<"S", "e", "n", "i", "o", "r", " ", "E", "n", "g", "i", "n", "e", "e", "r", " ", "r", "o", "l", "e">>

ResumeJunior == <<"J", "u", "n", "i", "o", "r", " ", "D", "e", "v", "e", "l", "o", "p", "e", "r">>

\* The numeric match scenario.
JobFiveYears == <<"5", " ", "y", "e", "a", "r", "s", " ", "e", "x", "p", "e", "r", "i", "e", "n", "c", "e", " ", "r", "e", "q", "u", "i", "r", "e", "d">>

ResumeThreeYears == <<"3", " ", "y", "e", "a", "r", "s", " ", "e", "x", "p", "e", "r", "i", "e", "n", "c", "e">>

\* Eight job tokens: one or three of them matched is a tie of round().
JobEightTokens == <<"a", "b", " ", "c", "d", " ", "e", "f", " ", "g", "h", " ", "i", "j", " ", "k", "l", " ", "m", "n", " ", "o", "p">>

ResumeOneOfEight == <<"a", "b">>

ResumeThreeOfEight == <<"a", "b", " ", "c", "d", " ", "e", "f">>

\* Symbols inside tokens, repeated tokens, stopwords in several casings.
JobSymbols == <<"C", "+", "+", " ", "a", "n", "d", " ", "C", "#", "/", ".", "N", "E", "T", ",", " ", "T", "h", "e", " ", "T", "H", "E", " ", "t", "h", "e", " ", "2", "x", " ", "n", "o", "d", "e", ".", "j", "s", "-", "d", "e", "v", " ", "q", " ", "C", "+", "+", " ", "1", "0", "\t", "\n", " ", "Y", "E", "A", "R", "S", "+">>

ResumeSymbols == <<"c", "+", "+", " ", "M", "i", "d", "-", "l", "e", "v", "e", "l", " ", "A", "n", "d", " ", "f", "o", "r", " ", "F", "O", "R", " ", "7", "y", "e", "a", "r", "s">>

\* Only stopwords, digits, single letters and punctuation.
JobNoTokens == <<"T", "h", "e", " ", "4", "2", " ", "a", " ", "X", ",", " ", "a", "n", "d", " ", "f", "o", "r", "!">>

ResumeAny == <<"a", "n", "y", " ", "r", "e", "s", "u", "m", "e", " ", "t", "e", "x", "t">>

\* A seniority term and a years figure asked for; the resume has a figure and
\* shares no token ("years." is not "years").
JobVpYears == <<"V", "P", " ", "5", " ", "y", "e", "a", "r", "s", ".">>

ResumeYearsOnly == <<"3", " ", "y", "e", "a", "r", "s">>

Scenarios ==
    { <<JobEndToEnd, ResumeEndToEnd>>, <<JobSeniorRole, ResumeJunior>>,
      <<JobFiveYears, ResumeThreeYears>>, <<JobEightTokens, ResumeOneOfEight>>,
      <<JobEightTokens, ResumeThreeOfEight>>, <<JobSymbols, ResumeSymbols>>,
      <<JobNoTokens, ResumeAny>>, <<JobSeniorRole, ResumeAny>>,
      <<JobVpYears, ResumeYearsOnly>> }

Inputs ==
    UNION {Concats(JobPieces, n) \X Concats(ResPieces, MaxPieces - n) : n \in 0..MaxPieces}
        \cup Scenarios

(***************************************************************************)
(* The state machine: one call of compute_fit_score per behaviour.         *)
(***************************************************************************)
\* no workflow around the two functions
AppIdle ==
    /\ earlier = <<>>
    /\ mpc = "idle"
    /\ job_text = <<>>
    /\ resume_text = <<>>
    /\ response = [shape |-> "none", resume |-> [kind |-> "missing", items |-> <<>>],
                   cover_letter |-> [kind |-> "missing", items |-> <<>>], extra |-> FALSE]
    /\ documents = [returns |-> FALSE, exit |-> "", resume |-> <<>>, cover_letter |-> <<>>]
    /\ files = {}
    /\ printed = <<>>
    /\ called = <<>>
    /\ session = <<>>
    /\ rendered = <<>>
    /\ run = 0

\* no call of the extractor
FetchIdle ==
    /\ variant = ""
    /\ src = <<>>
    /\ fpc = "idle"
    /\ status = 0
    /\ failure = ""
    /\ html = <<>>
    /\ soup = <<>>
    /\ path = ""
    /\ result = <<>>
    /\ error = [class |-> "", msg |-> "", cause |-> ""]
    /\ gets = 0
    /\ reads = 0
    /\ writes = 0

\* no call of the scorer
ScoreIdle ==
    /\ jd_text = <<>>
    /\ resume_md = <<>>
    /\ jd_tokens = {}
    /\ res_tokens = {}
    /\ score = 0
    /\ breakdown = EmptyBreakdown
    /\ pc = "idle"

Init ==
    /\ \E input \in Inputs :
           /\ jd_text = input[1]
           /\ resume_md = input[2]
    /\ jd_tokens = {}
    /\ res_tokens = {}
    /\ score = 0
    /\ breakdown = EmptyBreakdown
    /\ pc = "call"
    /\ FetchIdle
    /\ AppIdle

\* As no_jd_tokens, the check left out.
no_jd_tokens_Unchecked(jd) == FALSE

\* if not jd_tokens
no_jd_tokens(jd) == jd = {}

\* len(overlap) / len(jd_tokens) raises ZeroDivisionError on a zero divisor
ZeroDivision(jd) == Cardinality(jd) = 0

compute_fit_score ==
    /\ pc = "call"
    /\ LET jd == Range(_tokens(jd_text))
           res == Range(_tokens(resume_md))
       IN  /\ jd_tokens' = jd
           /\ res_tokens' = res
           /\ IF no_jd_tokens(jd)
              THEN /\ score' = 0
                   /\ breakdown' = EmptyBreakdown
                   /\ pc' = "done"
              ELSE IF ZeroDivision(jd)
              THEN /\ UNCHANGED <<score, breakdown>>
                   /\ pc' = "raised"
              ELSE LET overlap == jd \cap res
                       kw == keyword_score(jd, res)
                       sen == seniority_match(jd, res)
                       num == numeric_match(years(jd_text), years(resume_md))
                       tot == total(kw, sen, num, overlap)
                   IN  /\ score' = tot
                       /\ breakdown' = Breakdown(kw, sen, num, tot)
                       /\ pc' = "done"
    /\ UNCHANGED <<jd_text, resume_md>>
    /\ UNCHANGED fetch_vars
    /\ UNCHANGED app_vars

Next == compute_fit_score

Spec == Init /\ [][Next]_vars

(***************************************************************************)
(* Two calls of compute_fit_score for one job text, the second with        *)
(* another resume.                                                         *)
(***************************************************************************)
TwiceJobs == {JobEndToEnd, JobSeniorRole, JobFiveYears, JobNoTokens, JobVpYears}

TwiceBase ==
    {ResumeEndToEnd, ResumeJunior, ResumeThreeYears, ResumeAny, <<"V", "P">>}

\* a resume, or two different ones one after the other
TwiceResumes ==
    {<<>>} \cup TwiceBase
        \cup {p[1] \o <<" ">> \o p[2] :
                  p \in {q \in TwiceBase \X TwiceBase : q[1] # q[2]}}

TwiceInit ==
    /\ jd_text \in TwiceJobs
    /\ resume_md \in TwiceResumes
    /\ jd_tokens = {}
    /\ res_tokens = {}
    /\ score = 0
    /\ breakdown = EmptyBreakdown
    /\ pc = "call"
    /\ FetchIdle
    /\ AppIdle

\* the first call has returned: the same job text is scored against another
\* resume
ScoreAgain ==
    /\ pc = "done"
    /\ earlier = <<>>
    /\ earlier' = <<[resume |-> resume_md, res_tokens |-> res_tokens,
                     score |-> score, breakdown |-> breakdown]>>
    /\ resume_md' \in TwiceResumes
    /\ pc' = "call"
    /\ UNCHANGED <<jd_text, jd_tokens, res_tokens, score, breakdown>>
    /\ UNCHANGED fetch_vars
    /\ UNCHANGED <<mpc, job_text, resume_text, response, documents, files, printed, called>>
    /\ UNCHANGED gui_vars

TwiceNext == compute_fit_score \/ ScoreAgain

SpecTwice == TwiceInit /\ [][TwiceNext]_vars

(***************************************************************************)
(* The job-description extractor, fetch_job_description.                   *)
(*                                                                         *)
(* There are four copies: job_apply_assistant.py puts readability before   *)
(* the search for a large text block; replit_job_apply_assistant.py,       *)
(* job_apply_gui_with_agents.py and replit_app.py search the page text     *)
(* itself.  The fetching and the error handling are the same in all four.  *)
(***************************************************************************)
Variants ==
    {"job_apply_assistant", "replit_job_apply_assistant",
     "job_apply_gui_with_agents", "replit_app"}

UsesReadability(v) == v = "job_apply_assistant"

\* ---- strings ----

Min(S) == CHOOSE x \in S : \A y \in S : x <= y

Max(S) == CHOOSE x \in S : \A y \in S : x >= y

\* text.startswith(prefix)
startswith(text, prefix) ==
    Len(prefix) <= Len(text) /\ SubSeq(text, 1, Len(prefix)) = prefix

\* sub in text
in_str(sub, text) ==
    \E i \in 1..(Len(text) - Len(sub) + 1) : SubSeq(text, i, i + Len(sub) - 1) = sub

\* text.strip()
strip(text) ==
    LET solid == {i \in DOMAIN text : text[i] \notin Whitespace}
    IN  IF solid = {} THEN <<>> ELSE SubSeq(text, Min(solid), Max(solid))

\* re.sub(r"\s+", " ", text): of a run of whitespace the first character
\* stays, as one space; every other character stays as it is
SubWhitespace(text) ==
    LET marked == [i \in DOMAIN text |->
                      [c |-> text[i],
                       follows |-> i > 1 /\ text[i - 1] \in Whitespace]]
        kept == SelectSeq(marked, LAMBDA m : m.c \notin Whitespace \/ ~m.follows)
    IN  [k \in DOMAIN kept |-> IF kept[k].c \in Whitespace THEN " " ELSE kept[k].c]

\* As _strip_html, without the strip().
strip_html_NoStrip(text) == SubWhitespace(text)

\* re.sub(r"\s+", " ", text).strip()
_strip_html(text) == strip(SubWhitespace(text))

RECURSIVE SplitFrom(_, _, _)
SplitFrom(text, sep, i) ==
    LET hits == {j \in i..(Len(text) - Len(sep) + 1) :
                    SubSeq(text, j, j + Len(sep) - 1) = sep}
    IN  IF hits = {} THEN <<SubSeq(text, i, Len(text))>>
        ELSE <<SubSeq(text, i, Min(hits) - 1)>>
                 \o SplitFrom(text, sep, Min(hits) + Len(sep))

\* text.split(sep)
split(text, sep) == SplitFrom(text, sep, 1)

RECURSIVE join(_, _)
\* sep.join(parts)
join(sep, parts) ==
    IF parts = <<>> THEN <<>>
    ELSE IF Len(parts) = 1 THEN parts[1]
    ELSE parts[1] \o sep \o join(sep, Tail(parts))

\* max(parts, key=len): the first of the longest
max_len(parts) ==
    parts[Min({k \in DOMAIN parts :
                  \A m \in DOMAIN parts : Len(parts[m]) <= Len(parts[k])})]

\* ---- the parsed page ----

\* A page is the sequence of its text nodes in document order.  A node has
\* its string, its kind ("content", "boilerplate" for navigation and
\* advertisement, "script" for the string of a script or style element), the
\* selector that the element around it matches ("" for none) and the number
\* of that element.  Script strings lie outside the description containers.
selectors ==
    <<".description__text", ".show-more-less-html__markup", "#job-details",
      ".jobs-description__content", ".jobs-box__html-content">>

Node(text, kind, sel, elem) == [text |-> text, kind |-> kind, sel |-> sel, elem |-> elem]

Texts(nodes) == [i \in DOMAIN nodes |-> nodes[i].text]

\* for script in soup(["script", "style"]): script.extract()
extract_scripts(page) == SelectSeq(page, LAMBDA n : n.kind # "script")

\* soup.select(selector): the numbers of the matching elements, document order
select(page, selector) ==
    LET hit == SelectSeq(page, LAMBDA n : n.sel = selector)
    IN  [i \in DOMAIN hit |-> hit[i].elem]

\* the text nodes inside the element numbered elem that matches selector
element(page, selector, elem) ==
    SelectSeq(page, LAMBDA n : n.sel = selector /\ n.elem = elem)

\* get_text("\n", strip=True): every string stripped, the empty ones left
\* out, the others joined by a newline
get_text(nodes) ==
    join(<<"\n">>, SelectSeq([i \in DOMAIN nodes |-> strip(nodes[i].text)],
                             LAMBDA t : t # <<>>))

\* readability.Document(html).summary(): the content stays, scripts go, and
\* the library decides whether boilerplate stays
summary(page, keeps_boilerplate) ==
    SelectSeq(page, LAMBDA n : n.kind = "content"
                                  \/ (n.kind = "boilerplate" /\ keeps_boilerplate))

\* ---- the extraction heuristics ----

\* As is_url, the scheme separator asked for as well.
is_url_WithScheme(source) == startswith(source, <<"h", "t", "t", "p", ":", "/", "/">>) \/ startswith(source, <<"h", "t", "t", "p", "s", ":", "/", "/">>)

\* src.startswith("http")
is_url(source) == startswith(source, <<"h", "t", "t", "p">>)

\* As is_linkedin, for URLs only.
is_linkedin_UrlOnly(source) ==
    startswith(source, <<"h", "t", "t", "p">>)
        /\ in_str(<<"l", "i", "n", "k", "e", "d", "i", "n", ".", "c", "o", "m">>, source)

\* "linkedin.com" in src
is_linkedin(source) == in_str(<<"l", "i", "n", "k", "e", "d", "i", "n", ".", "c", "o", "m">>, source)

\* As is_substantial, the threshold itself accepted.
is_substantial_AtLeast(block) == Len(block) >= 100

\* len(block) > 100
is_substantial(block) == Len(block) > 100

\* As first_match, the last selector of the list with a match.
first_match_Last(page) ==
    LET hits == {k \in DOMAIN selectors : select(page, selectors[k]) # <<>>}
    IN  IF hits = {} THEN 0 ELSE Max(hits)

\* the first selector of the list with a match, 0 if there is none
first_match(page) ==
    LET hits == {k \in DOMAIN selectors : select(page, selectors[k]) # <<>>}
    IN  IF hits = {} THEN 0 ELSE Min(hits)

\* As extract_selector, the text of the container left as get_text gives it.
extract_selector_Raw(page) ==
    LET sel == selectors[first_match(page)]
    IN  [path |-> "selector", soup |-> page,
         text |-> get_text(element(page, sel, select(page, sel)[1]))]

\* _strip_html(elements[0].get_text("\n", strip=True)) of the first match
extract_selector(page) ==
    LET sel == selectors[first_match(page)]
    IN  [path |-> "selector", soup |-> page,
         text |-> _strip_html(get_text(element(page, sel, select(page, sel)[1])))]

\* the copies without readability: the largest paragraph of the page text
extract_paragraphs(doc) ==
    LET text == get_text(doc)
        paragraphs == split(text, <<"\n", "\n">>)
        largest_paragraph == max_len(paragraphs)
    IN  IF paragraphs # <<>> /\ is_substantial(largest_paragraph)
        THEN [path |-> "largest", soup |-> doc, text |-> _strip_html(largest_paragraph)]
        ELSE [path |-> "fallback", soup |-> doc, text |-> _strip_html(text)]

\* job_apply_assistant.py: the largest string of readability's summary
extract_readable(doc) ==
    LET candidates == SelectSeq(Texts(doc), is_substantial)
    IN  IF candidates = <<>>
        THEN [path |-> "fallback", soup |-> doc, text |-> _strip_html(get_text(doc))]
        ELSE [path |-> "largest", soup |-> doc, text |-> _strip_html(max_len(candidates))]

\* the body of the parsing try block
extract(v, source, page, keeps_boilerplate) ==
    IF UsesReadability(v)
    THEN IF is_linkedin(source) /\ first_match(page) # 0
         THEN extract_selector(page)
         ELSE extract_readable(summary(page, keeps_boilerplate))
    ELSE LET doc == extract_scripts(page)
         IN  IF is_linkedin(source) /\ first_match(doc) # 0
             THEN extract_selector(doc)
             ELSE extract_paragraphs(doc)

\* ---- exceptions ----

\* the classes an exception is an instance of (requests.exceptions and the
\* built-in ones); a connect timeout is a ConnectionError and a Timeout
Mro ==
    [c \in {"HTTPError", "ConnectionError", "ConnectTimeout", "ReadTimeout",
            "TooManyRedirects", "RuntimeError", "FileNotFoundError",
            "PermissionError", "UnicodeDecodeError", "ParserError", "ValueError",
            "UnicodeError", "MissingSchema"} |->
        CASE c = "HTTPError" -> {"HTTPError", "RequestException", "OSError", "Exception"}
          [] c = "ConnectionError" ->
                 {"ConnectionError", "RequestException", "OSError", "Exception"}
          [] c = "ConnectTimeout" ->
                 {"ConnectTimeout", "ConnectionError", "Timeout", "RequestException",
                  "OSError", "Exception"}
          [] c = "ReadTimeout" ->
                 {"ReadTimeout", "Timeout", "RequestException", "OSError", "Exception"}
          [] c = "TooManyRedirects" ->
                 {"TooManyRedirects", "RequestException", "OSError", "Exception"}
          [] c = "RuntimeError" -> {"RuntimeError", "Exception"}
          [] c = "FileNotFoundError" -> {"FileNotFoundError", "OSError", "Exception"}
          [] c = "PermissionError" -> {"PermissionError", "OSError", "Exception"}
          [] c = "UnicodeDecodeError" ->
                 {"UnicodeDecodeError", "UnicodeError", "ValueError", "Exception"}
          [] c = "ParserError" -> {"ParserError", "Exception"}
          [] c = "ValueError" -> {"ValueError", "Exception"}
          [] c = "UnicodeError" -> {"UnicodeError", "ValueError", "Exception"}
          [] c = "MissingSchema" ->
                 {"MissingSchema", "RequestException", "OSError", "ValueError",
                  "Exception"}]

\* an exception in flight: its class, its message, the class of its cause
Exc(class, msg, cause) == [class |-> class, msg |-> msg, cause |-> cause]

NoError == Exc("", "", "")

\* the first except clause that catches an exception of class c, 0 if none
first_handler(clauses, c) ==
    LET hits == {k \in DOMAIN clauses : clauses[k] \in Mro[c]}
    IN  IF hits = {} THEN 0 ELSE Min(hits)

\* As http_error, 401 taken for the forbidden status.
http_error_Unauthorized(code) ==
    IF code = 401
    THEN Exc("ValueError", "Access denied (403 Forbidden). The website may be blocking automated access. Try saving the job posting as HTML and uploading it instead.", "")
    ELSE IF code = 404
    THEN Exc("ValueError", "Job posting not found (404 Not Found). Please check the URL and try again.", "")
    ELSE Exc("ValueError", "HTTP error when accessing URL: {e}", "HTTPError")

\* except requests.exceptions.HTTPError as e
http_error(code) ==
    IF code = 403
    THEN Exc("ValueError", "Access denied (403 Forbidden). The website may be blocking automated access. Try saving the job posting as HTML and uploading it instead.", "")
    ELSE IF code = 404
    THEN Exc("ValueError", "Job posting not found (404 Not Found). Please check the URL and try again.", "")
    ELSE Exc("ValueError", "HTTP error when accessing URL: {e}", "HTTPError")

\* the except clauses of the request, in their order
request_clauses == <<"HTTPError", "ConnectionError", "Timeout", "RequestException">>

\* what leaves the try block of the request when class c is raised in it
request_failed(c, code) ==
    LET k == first_handler(request_clauses, c)
    IN  IF k = 0 THEN Exc(c, "{e}", "")
        ELSE IF request_clauses[k] = "HTTPError" THEN http_error(code)
        ELSE IF request_clauses[k] = "ConnectionError"
        THEN Exc("ValueError", "Connection error. Please check your internet connection and the URL.", "")
        ELSE IF request_clauses[k] = "Timeout"
        THEN Exc("ValueError", "Request timed out. The server may be slow or unreachable.", "")
        ELSE Exc("ValueError", "Error fetching URL: {e}", c)

\* the except clauses of the file read, in their order
read_clauses == <<"FileNotFoundError", "Exception">>

\* what leaves the try block of the file read when class c is raised in it
read_failed(c) ==
    LET k == first_handler(read_clauses, c)
    IN  IF k = 0 THEN Exc(c, "{e}", "")
        ELSE IF read_clauses[k] = "FileNotFoundError"
        THEN Exc("ValueError", "File not found: {src}", "")
        ELSE Exc("ValueError", "Error reading file: {e}", c)

\* what leaves the try block of the parsing when class c is raised in it
parse_failed(c) ==
    IF "Exception" \in Mro[c]
    THEN Exc("ValueError", "Error parsing HTML content: {e}", c)
    ELSE Exc(c, "{e}", "")

\* As outer_handler, without the clause for the other exceptions.
outer_handler_ValueErrorOnly(e) == e

\* the outer try: a ValueError is raised again, any other exception becomes one
outer_handler(e) ==
    IF "ValueError" \in Mro[e.class] THEN e
    ELSE IF "Exception" \in Mro[e.class]
    THEN Exc("ValueError", "Unexpected error: {e}", e.class)
    ELSE e

\* resp.raise_for_status()
raise_for_status(code) == code \in 400..599

\* ---- what the extractor is run on ----

\* the sources: two URLs, a name that only begins like one, two local files
LinkedInUrl == <<"h", "t", "t", "p", "s", ":", "/", "/", "w", "w", "w", ".", "l", "i", "n", "k", "e", "d", "i", "n", ".", "c", "o", "m", "/", "j", "o", "b", "s", "/", "v", "i", "e", "w", "/", "1">>

OtherUrl == <<"h", "t", "t", "p", "s", ":", "/", "/", "e", "x", "a", "m", "p", "l", "e", ".", "c", "o", "m", "/", "j", "o", "b">>

HttpFileName == <<"h", "t", "t", "p", ".", "h", "t", "m", "l">>

SavedPage == <<"j", "o", "b", ".", "h", "t", "m", "l">>

SavedLinkedInPage == <<"l", "i", "n", "k", "e", "d", "i", "n", ".", "c", "o", "m", ".", "h", "t", "m", "l">>

Sources == {LinkedInUrl, OtherUrl, HttpFileName, SavedPage, SavedLinkedInPage}

\* a text of n characters, words of four letters, no whitespace at its ends
Block(n, ch) == [i \in 1..n |-> IF i % 5 = 3 /\ i < n THEN " " ELSE ch]

ShortNode == Node(<<" ", " ", "A", "p", "p", "l", "y", " ", "\n", " ", "n", "o", "w", "\t">>, "content", "", 0)

HundredNode == Node(Block(100, "c"), "content", "", 0)

HundredOneNode == Node(<<"\n">> \o Block(101, "d") \o <<" ">>, "content", "", 0)

NavNode == Node(<<"H", "o", "m", "e", " ", "|", " ", "J", "o", "b", "s", " ">>, "boilerplate", "", 0)

ScriptNode == Node(<<"v", "a", "r", " ", "x", " ", "=", " ", "1", ";">>, "script", "", 0)

MarkupNode == Node(<<" ", "S", "e", "n", "i", "o", "r", " ", " ", "E", "n", "g", "i", "n", "e", "e", "r", "\n">>, "content", ".show-more-less-html__markup", 1)

SecondMarkupNode == Node(<<"S", "i", "m", "i", "l", "a", "r", " ", "j", "o", "b", "s">>, "content", ".show-more-less-html__markup", 2)

DetailsNode == Node(<<"R", "e", "m", "o", "t", "e", " ", "r", "o", "l", "e">>, "content", "#job-details", 1)

Nodes ==
    {ShortNode, HundredNode, HundredOneNode, NavNode, ScriptNode, MarkupNode,
     DetailsNode}

\* the longest page that is built from Nodes
MaxNodes == 2

\* the strings of one element follow each other in the document
WellFormed(page) ==
    \A i, j \in DOMAIN page :
        (i < j /\ page[i].sel # "" /\ page[i].sel = page[j].sel
               /\ page[i].elem = page[j].elem)
            => \A k \in i..j : page[k].sel = page[i].sel /\ page[k].elem = page[i].elem

\* one paragraph of 500 characters and three shorter ones, under a menu
FiveHundredPage ==
    <<NavNode, Node(<<"A", "b", "o", "u", "t", " ", " ", "u", "s">>, "content", "", 0),
      Node(Block(500, "p"), "content", "", 0),
      Node(<<"A", "p", "p", "l", "y", " ", "n", "o", "w">>, "content", "", 0),
      Node(<<"E", "q", "u", "a", "l", " ", "o", "p", "p", "o", "r", "t", "u", "n", "i", "t", "y", " ", "e", "m", "p", "l", "o", "y", "e", "r">>, "content", "", 0)>>

\* a string with an empty line in it, 120 characters before the empty line
BlankLinePage ==
    <<NavNode, Node(Block(120, "b") \o <<"\n", "\n">> \o <<"s", "h", "o", "r", "t", " ", "t", "a", "i", "l">>, "content", "", 0)>>

\* a string with an empty line in it, 100 characters before the empty line
BlankLineHundredPage ==
    <<Node(Block(100, "b") \o <<"\n", "\n">> \o <<"s", "h", "o", "r", "t", " ", "t", "a", "i", "l">>, "content", "", 0)>>

\* two elements of one selector, an element of a later selector, a menu
TwoContainersPage ==
    <<NavNode, ScriptNode, DetailsNode, MarkupNode,
      Node(<<"P", "y", "t", "h", "o", "n", " ", "a", "n", "d", " ", "S", "Q", "L">>, "content", ".show-more-less-html__markup", 1),
      SecondMarkupNode, NavNode>>

\* the fifth selector matches before the third one does, in the document
LaterSelectorPage ==
    <<NavNode, Node(<<"B", "e", "n", "e", "f", "i", "t", "s">>, "content", ".jobs-box__html-content", 1),
      DetailsNode>>

\* the first selector matches an element that holds a space only
EmptyContainerPage ==
    <<Node(<<" ">>, "content", ".description__text", 1), DetailsNode>>

ScenarioPages ==
    {FiveHundredPage, BlankLinePage, BlankLineHundredPage, TwoContainersPage,
     LaterSelectorPage, EmptyContainerPage}

Pages ==
    {page \in UNION {[1..n -> Nodes] : n \in 0..MaxNodes} : WellFormed(page)}
        \cup ScenarioPages

\* the HTTP statuses a response arrives with
Statuses == {200, 401, 403, 404, 500}

\* a source with a scheme can be requested; requests refuses any other
has_scheme(source) == startswith(source, <<"h", "t", "t", "p", ":", "/", "/">>) \/ startswith(source, <<"h", "t", "t", "p", "s", ":", "/", "/">>)

\* what requests.get raises instead of giving a response
RequestExceptions(source) ==
    IF has_scheme(source)
    THEN {"ConnectionError", "ConnectTimeout", "ReadTimeout", "TooManyRedirects",
          "UnicodeError", "RuntimeError"}
    ELSE {"MissingSchema"}

\* what Path(src).read_text(encoding="utf-8") raises instead of giving a text
ReadExceptions == {"FileNotFoundError", "PermissionError", "UnicodeDecodeError"}

\* what the parsers raise instead of giving a document
ParseExceptions == {"ParserError"}

\* ---- the state machine: one call of fetch_job_description per behaviour ----

FetchInit ==
    /\ ScoreIdle
    /\ AppIdle
    /\ variant \in Variants
    /\ src \in Sources
    /\ fpc = "call"
    /\ status = 0
    /\ failure = ""
    /\ html = <<>>
    /\ soup = <<>>
    /\ path = ""
    /\ result = <<>>
    /\ error = NoError
    /\ gets = 0
    /\ reads = 0
    /\ writes = 0

\* the function is left by the exception e of one of its inner try blocks
Raise(class, e) ==
    /\ failure' = class
    /\ error' = outer_handler(e)
    /\ fpc' = "raised"
    /\ UNCHANGED <<html, soup, path, result>>

\* resp = requests.get(src, headers=headers, timeout=30) and what follows it
\* in the try block
HttpGet ==
    /\ fpc = "call"
    /\ is_url(src)
    /\ gets' = gets + 1
    /\ \/ \E class \in RequestExceptions(src) :
              /\ Raise(class, request_failed(class, 0))
              /\ UNCHANGED status
       \/ /\ has_scheme(src)
          /\ \E code \in Statuses :
                 /\ status' = code
                 /\ IF raise_for_status(code)
                    THEN Raise("HTTPError", request_failed("HTTPError", code))
                    ELSE /\ \E page \in Pages : html' = page
                         /\ fpc' = "fetched"
                         /\ UNCHANGED <<failure, soup, path, result, error>>
    /\ UNCHANGED <<variant, src, reads, writes>>
    /\ UNCHANGED score_vars
    /\ UNCHANGED app_vars

\* html = Path(src).read_text(encoding="utf-8")
ReadFile ==
    /\ fpc = "call"
    /\ ~is_url(src)
    /\ reads' = reads + 1
    /\ \/ \E class \in ReadExceptions : Raise(class, read_failed(class))
       \/ /\ \E page \in Pages : html' = page
          /\ fpc' = "fetched"
          /\ UNCHANGED <<failure, soup, path, result, error>>
    /\ UNCHANGED <<variant, src, status, gets, writes>>
    /\ UNCHANGED score_vars
    /\ UNCHANGED app_vars

\* the parsing try block: the text of one of the three paths is returned
Parse ==
    /\ fpc = "fetched"
    /\ \/ \E class \in ParseExceptions : Raise(class, parse_failed(class))
       \/ \E keeps_boilerplate \in BOOLEAN :
              LET found == extract(variant, src, html, keeps_boilerplate)
              IN  /\ soup' = found.soup
                  /\ path' = found.path
                  /\ result' = found.text
                  /\ fpc' = "returned"
                  /\ UNCHANGED <<html, failure, error>>
    /\ UNCHANGED <<variant, src, status, gets, reads, writes>>
    /\ UNCHANGED score_vars
    /\ UNCHANGED app_vars

FetchNext == HttpGet \/ ReadFile \/ Parse

SpecFetch == FetchInit /\ [][FetchNext]_vars


(***************************************************************************)
(* generate_documents: the reply of the generation service and what the    *)
(* function makes of it.                                                   *)
(***************************************************************************)
\* A value of the parsed reply: its Python type and the strings it holds.
Value(kind, items) == [kind |-> kind, items |-> items]

Missing == Value("missing", <<>>)

\* the texts the service writes
DocTexts == {ResumeEndToEnd, ResumeJunior}

\* a string, a list of strings, a list that holds a number, an object, a number
FieldValues ==
    {Value("str", <<t>>) : t \in DocTexts}
        \cup {Value("list", <<ResumeJunior, ResumeThreeYears>>),
              Value("list", <<>>),
              Value("list_of_int", <<>>),
              Value("dict", <<>>),
              Value("int", <<>>)}

\* the reply: no reply at all (the request raised), a content that is not JSON,
\* a JSON array, or a JSON object with or without each of the two fields and
\* with or without a third one
Reply(shape, resume, cover_letter, extra) ==
    [shape |-> shape, resume |-> resume, cover_letter |-> cover_letter, extra |-> extra]

NoReply == Reply("none", Missing, Missing, FALSE)

Replies ==
    {Reply(shape, Missing, Missing, FALSE) : shape \in {"api_error", "not_json", "array"}}
        \cup {Reply("object", r, c, extra) :
                 r \in FieldValues \cup {Missing},
                 c \in {Value("str", <<<<"D", "e", "a", "r", " ", "A", "c", "m", "e", " ", "T", "e", "a", "m", ",", " ", "I", " ", "a", "m", " ", "a", "p", "p", "l", "y", "i", "n", "g", ".">>>>), Value("dict", <<>>), Missing},
                 extra \in BOOLEAN}

\* '\n'.join(value) raises TypeError when an item is not a string
join_raises(value) == value.kind = "list_of_int"

\* the isinstance chain: a list is joined with newlines, a dict is dumped as
\* JSON with indent 2, any other value that is not a string goes through str()
as_text(value) ==
    IF value.kind = "list" THEN join(<<"\n">>, value.items)
    ELSE IF value.kind = "dict" THEN <<"{", "\n", " ", " ", "\"", "s", "u", "m", "m", "a", "r", "y", "\"", ":", " ", "\"", "J", "u", "n", "i", "o", "r", " ", "D", "e", "v", "e", "l", "o", "p", "e", "r", "\"", "\n", "}">>
    ELSE IF value.kind = "str" THEN value.items[1]
    ELSE <<"4", "2">>

\* As converts, only strings accepted.
converts_StrOnly(value) == value.kind = "str"

\* the isinstance chain ends without an exception
converts(value) == ~join_raises(value)

\* isinstance(data, dict) and "resume" in data and "cover_letter" in data
has_both_keys(reply) ==
    reply.shape = "object" /\ reply.resume # Missing /\ reply.cover_letter # Missing

\* what generate_documents does with the reply: the pair it returns, or the
\* message it leaves the program with (sys.exit)
generate_documents(api_key, reply) ==
    IF ~api_key
    THEN [returns |-> FALSE, exit |-> "OPENAI_API_KEY not set in environment.",
          resume |-> <<>>, cover_letter |-> <<>>]
    ELSE IF reply.shape \in {"api_error", "not_json"}
    THEN [returns |-> FALSE, exit |-> "Error: {e}", resume |-> <<>>, cover_letter |-> <<>>]
    ELSE IF ~has_both_keys(reply)
    THEN [returns |-> FALSE, exit |-> "Unexpected response format: {data}",
          resume |-> <<>>, cover_letter |-> <<>>]
    ELSE IF ~converts(reply.resume) \/ ~converts(reply.cover_letter)
    THEN [returns |-> FALSE, exit |-> "Error: {e}", resume |-> <<>>, cover_letter |-> <<>>]
    ELSE [returns |-> TRUE, exit |-> "",
          resume |-> as_text(reply.resume), cover_letter |-> as_text(reply.cover_letter)]

NoDocuments == [returns |-> FALSE, exit |-> "", resume |-> <<>>, cover_letter |-> <<>>]

(***************************************************************************)
(* main of job_apply_assistant.py: one run of the command line.            *)
(***************************************************************************)
\* what fetch_job_description returns to main: a normalized text, which may
\* be empty or hold no token
JobTexts == {JobEndToEnd, JobSeniorRole, JobNoTokens, <<>>}

\* what extract_text_from_file returns
ResumeTexts == {ResumeAny}

\* a printed line, with the number it shows (-1 if it shows none)
Line(text, value) == [text |-> text, value |-> value]

\* As on_fetch_error, the run going on.
on_fetch_error_Continue == "read_resume"

\* except ValueError as e: print(...); return
on_fetch_error == "returned"

MainInit ==
    /\ ScoreIdle
    /\ FetchIdle
    /\ earlier = <<>>
    /\ mpc = "fetch"
    /\ job_text = <<>>
    /\ resume_text = <<>>
    /\ response = NoReply
    /\ documents = NoDocuments
    /\ files = {}
    /\ printed = <<>>
    /\ called = <<>>
    /\ session = <<>>
    /\ rendered = <<>>
    /\ run = 0

\* job_text = fetch_job_description(args.url)
main_fetch ==
    /\ mpc = "fetch"
    /\ called' = Append(called, "fetch_job_description")
    /\ \/ /\ job_text' \in JobTexts
          /\ mpc' = "read_resume"
          /\ UNCHANGED printed
       \/ /\ printed' = Append(printed, Line("Error fetching job description: {e}", -1))
          /\ mpc' = on_fetch_error
          /\ UNCHANGED job_text
    /\ UNCHANGED <<earlier, resume_text, response, documents, files>>
    /\ UNCHANGED <<score_vars, fetch_vars, gui_vars>>

\* resume_text = extract_text_from_file(args.resume)
main_read_resume ==
    /\ mpc = "read_resume"
    /\ called' = Append(called, "extract_text_from_file")
    /\ \/ /\ resume_text' \in ResumeTexts
          /\ mpc' = "generate"
          /\ UNCHANGED printed
       \/ /\ printed' = Append(printed, Line("Error reading resume file: {e}", -1))
          /\ mpc' = "returned"
          /\ UNCHANGED resume_text
    /\ UNCHANGED <<earlier, job_text, response, documents, files>>
    /\ UNCHANGED <<score_vars, fetch_vars, gui_vars>>

\* tailored_resume_md, cover_letter_md = generate_documents(...): sys.exit
\* inside it ends the program, no except clause of main catches SystemExit
main_generate ==
    /\ mpc = "generate"
    /\ called' = Append(called, "generate_documents")
    /\ \E api_key \in BOOLEAN : \E reply \in Replies :
           LET pair == generate_documents(api_key, reply)
           IN  /\ response' = (IF api_key THEN reply ELSE NoReply)
               /\ documents' = pair
               /\ IF pair.returns
                  THEN mpc' = "score" /\ UNCHANGED printed
                  ELSE /\ mpc' = "exited"
                       /\ printed' = Append(printed, Line(pair.exit, -1))
    /\ UNCHANGED <<earlier, job_text, resume_text, files>>
    /\ UNCHANGED <<score_vars, fetch_vars, gui_vars>>

\* score, details = compute_fit_score(job_text, tailored_resume_md): the call
main_score ==
    /\ mpc = "score"
    /\ called' = Append(called, "compute_fit_score")
    /\ jd_text' = job_text
    /\ resume_md' = documents.resume
    /\ pc' = "call"
    /\ mpc' = "scoring"
    /\ UNCHANGED <<jd_tokens, res_tokens, score, breakdown>>
    /\ UNCHANGED <<earlier, job_text, resume_text, response, documents, files, printed>>
    /\ UNCHANGED <<fetch_vars, gui_vars>>

\* the lines that show the score: details['overall'] raises KeyError when the
\* key is missing, after the heading has been printed
fit_score_lines(details) ==
    IF "overall" \in DOMAIN details
    THEN <<Line("FitScore:", -1), Line("Overall: {} / 100", details["overall"]),
           Line("Keyword coverage: {}%", details["keyword_coverage"]),
           Line("Seniority match: {}%", details["seniority"]),
           Line("Numeric match: {}%", details["numeric"])>>
    ELSE <<Line("FitScore:", -1), Line("Error saving files: {e}", -1)>>

\* the try block that saves the files and prints the report
main_save ==
    /\ mpc = "scoring"
    /\ pc = "done"
    /\ \E disk \in {"ok", "mkdir fails", "second write fails"} :
       \E pdfs \in SUBSET {"resume.pdf", "cover_letter.pdf"} :
           IF disk = "mkdir fails"
           THEN /\ printed' = Append(printed, Line("Error saving files: {e}", -1))
                /\ UNCHANGED files
           ELSE IF disk = "second write fails"
           THEN /\ printed' = Append(printed, Line("Error saving files: {e}", -1))
                /\ files' = files \cup {"resume.md"}
           ELSE /\ files' = files \cup {"resume.md", "cover_letter.md"} \cup pdfs
                /\ printed' = printed \o <<Line("Files created in", -1)>>
                                  \o fit_score_lines(breakdown)
    /\ mpc' = "returned"
    /\ UNCHANGED <<earlier, job_text, resume_text, response, documents, called>>
    /\ UNCHANGED <<score_vars, fetch_vars, gui_vars>>

MainNext ==
    \/ main_fetch
    \/ main_read_resume
    \/ main_generate
    \/ main_score
    \/ compute_fit_score
    \/ main_save

SpecMain == MainInit /\ [][MainNext]_vars

(***************************************************************************)
(* The Streamlit applications.  Streamlit runs the script from top to      *)
(* bottom on every interaction; st.session_state outlives the runs.        *)
(***************************************************************************)
\* the Generate clicks that are followed
MaxRuns == 2

\* Python's None, and a value that is not None
None == <<>>

Some(x) == <<x>>

\* the job description pasted into the form, with a company and a title
PastedJobs == {JobNoTokens, JobEndToEnd}

ManualCompanies == {"Acme", "Initech"}

ManualTitle == <<"D", "e", "v", "e", "l", "o", "p", "e", "r">>

\* the text that fetch_job_description returns for the job URL
FetchedJobs == {JobSeniorRole}

\* the replies of the generation service that are followed
GuiReplies ==
    {Reply("api_error", Missing, Missing, FALSE),
     Reply("object", Value("str", <<ResumeJunior>>),
           Value("str", <<<<"D", "e", "a", "r", " ", "A", "c", "m", "e", " ", "T", "e", "a", "m", ",", " ", "I", " ", "a", "m", " ", "a", "p", "p", "l", "y", "i", "n", "g", ".">>>>), FALSE),
     Reply("object", Value("list", <<ResumeJunior, ResumeThreeYears>>),
           Value("dict", <<>>), TRUE)}

\* job_description.split("\n", 1)[0]
first_line(text) ==
    LET breaks == {i \in DOMAIN text : text[i] = "\n"}
    IN  IF breaks = {} THEN text ELSE SubSeq(text, 1, Min(breaks) - 1)

\* first_line[:80]
role_of(text) ==
    LET line == first_line(text)
    IN  IF Len(line) > 80 THEN SubSeq(line, 1, 80) ELSE line

\* a message of st.error or st.warning
Message(text) == Line(text, -1)

\* what a run of the script shows below the form
Rendered(section, raised) == [section |-> section, raised |-> raised]

(***************************************************************************)
(* replit_app.py, main.                                                    *)
(***************************************************************************)
\* the form of replit_app: a job URL, or a pasted description with the
\* company and the title typed in; the company of a job URL is "Company" or
\* the name that company_patterns find in the cover letter
ReplitJobs ==
    {[job_url |-> TRUE, fetched |-> FALSE, text |-> <<>>, company |-> "Company",
      role |-> <<>>]}
        \cup {[job_url |-> TRUE, fetched |-> TRUE, text |-> t, company |-> c,
               role |-> role_of(t)] : t \in FetchedJobs, c \in {"Company", "Acme"}}
        \cup {[job_url |-> FALSE, fetched |-> TRUE, text |-> t, company |-> c,
               role |-> ManualTitle] : t \in PastedJobs, c \in {"Acme"}}

ReplitInit ==
    /\ ScoreIdle
    /\ FetchIdle
    /\ earlier = <<>>
    /\ mpc = "form"
    /\ job_text = <<>>
    /\ resume_text = <<>>
    /\ response = NoReply
    /\ documents = NoDocuments
    /\ files = {}
    /\ printed = <<>>
    /\ called = <<>>
    /\ session = [documents |-> None, fit_score |-> None, company_name |-> None,
                  role_title |-> None]
    /\ rendered = <<>>
    /\ run = 0

\* a run of the script that stops at st.error and return
replit_return(message) ==
    /\ printed' = <<Message(message)>>
    /\ rendered' = Rendered("none", "")
    /\ mpc' = "form"
    /\ UNCHANGED <<session, score_vars>>

\* if generate_button: the job description, the resume, generate_documents,
\* the documents, the company and the role stored, compute_fit_score called
replit_generate ==
    /\ mpc = "form"
    /\ run < MaxRuns
    /\ run' = run + 1
    /\ \E job \in ReplitJobs : \E resume_read \in BOOLEAN :
       \E api_key \in BOOLEAN : \E reply \in GuiReplies :
           LET pair == generate_documents(api_key, reply)
           IN  /\ job_text' = job.text
               /\ resume_text' = (IF job.fetched /\ resume_read THEN ResumeAny ELSE <<>>)
               /\ response' = (IF job.fetched /\ resume_read /\ api_key
                               THEN reply ELSE NoReply)
               /\ documents' = (IF job.fetched /\ resume_read THEN pair ELSE NoDocuments)
               /\ called' =
                      (IF job.job_url THEN <<"fetch_job_description">> ELSE <<>>)
                          \o (IF job.fetched /\ resume_read
                              THEN <<"generate_documents">> ELSE <<>>)
                          \o (IF job.fetched /\ resume_read /\ pair.returns
                              THEN <<"compute_fit_score">> ELSE <<>>)
               /\ IF ~job.fetched
                  THEN replit_return("Error processing job description: {e}")
                  ELSE IF ~resume_read
                  THEN replit_return("Error reading default resume: {e}")
                  ELSE IF ~pair.returns
                  THEN replit_return("Failed to generate documents. Please try again.")
                  ELSE /\ session' =
                              [session EXCEPT
                                  !.documents = Some([run |-> run', resume |-> pair.resume,
                                                      cover_letter |-> pair.cover_letter]),
                                  !.company_name = Some(job.company),
                                  !.role_title = Some(job.role)]
                       /\ jd_text' = job.text
                       /\ resume_md' = pair.resume
                       /\ pc' = "call"
                       /\ mpc' = "scoring"
                       /\ printed' = <<>>
                       /\ UNCHANGED <<jd_tokens, res_tokens, score, breakdown, rendered>>
    /\ UNCHANGED <<earlier, files>>
    /\ UNCHANGED fetch_vars

\* st.session_state.fit_score = (score, details), and the files saved
replit_store ==
    /\ mpc = "scoring"
    /\ pc = "done"
    /\ session' = [session EXCEPT
                      !.fit_score = Some([run |-> run, score |-> score,
                                          details |-> breakdown])]
    /\ \E disk \in BOOLEAN :
           IF disk
           THEN /\ files' = files \cup {"resume.md", "cover_letter.md"}
                /\ UNCHANGED printed
           ELSE /\ printed' = <<Message("Note: Could not save files to disk: {e}")>>
                /\ UNCHANGED files
    /\ mpc' = "display"
    /\ UNCHANGED <<earlier, job_text, resume_text, response, documents, called,
                   rendered, run>>
    /\ UNCHANGED <<score_vars, fetch_vars>>

\* a run of the script without a click on Generate
replit_rerun ==
    /\ mpc = "form"
    /\ mpc' = "display"
    /\ printed' = <<>>
    /\ UNCHANGED <<earlier, job_text, resume_text, response, documents, files, called,
                   session, rendered, run>>
    /\ UNCHANGED <<score_vars, fetch_vars>>

\* score, details = st.session_state.fit_score and the three details[...]
results_section(fit_score) ==
    IF fit_score = None THEN Rendered("results", "TypeError")
    ELSE IF {"keyword_coverage", "seniority", "numeric"} \subseteq DOMAIN fit_score[1].details
    THEN Rendered("results", "")
    ELSE Rendered("results", "KeyError")

\* if st.session_state.documents: the results section
replit_display ==
    /\ mpc = "display"
    /\ rendered' = (IF session.documents # None
                    THEN results_section(session.fit_score)
                    ELSE Rendered("none", ""))
    /\ mpc' = "form"
    /\ UNCHANGED <<earlier, job_text, resume_text, response, documents, files, printed,
                   called, session, run>>
    /\ UNCHANGED <<score_vars, fetch_vars>>

ReplitNext ==
    \/ replit_generate
    \/ compute_fit_score
    \/ replit_store
    \/ replit_rerun
    \/ replit_display

SpecReplit == ReplitInit /\ [][ReplitNext]_vars

(***************************************************************************)
(* job_apply_gui.py: the script with the Generate handler.                 *)
(***************************************************************************)
\* the form of job_apply_gui: a job URL whose fetch fails, or a pasted
\* description with the company and the title typed in
GuiJobs ==
    {[job_url |-> TRUE, fetched |-> FALSE, text |-> <<>>, company |-> "Company",
      role |-> <<>>]}
        \cup {[job_url |-> FALSE, fetched |-> TRUE, text |-> t, company |-> c,
               role |-> ManualTitle] : t \in PastedJobs, c \in ManualCompanies}

GuiInit ==
    /\ ScoreIdle
    /\ FetchIdle
    /\ earlier = <<>>
    /\ mpc = "form"
    /\ job_text = <<>>
    /\ resume_text = <<>>
    /\ response = NoReply
    /\ documents = NoDocuments
    /\ files = {}
    /\ printed = <<>>
    /\ called = <<>>
    /\ session = [documents |-> None, fit_score |-> None, company_name |-> None,
                  role_title |-> None, created_files |-> <<>>]
    /\ rendered = <<>>
    /\ run = 0

\* st.error(...); raise, which the outer `except Exception: pass` swallows:
\* the script goes on to the display
gui_raise(message) ==
    /\ printed' = <<Message(message)>>
    /\ mpc' = "display"
    /\ UNCHANGED <<rendered, score_vars>>

\* if generate_button: the job description, the company and the role stored,
\* the resume read, generate_documents, the documents stored, the company
\* looked for in the cover letter, compute_fit_score called
gui_generate ==
    /\ mpc = "form"
    /\ run < MaxRuns
    /\ run' = run + 1
    /\ earlier' = <<session>>
    /\ \E job \in GuiJobs : \E resume_read \in BOOLEAN :
       \E api_key \in BOOLEAN : \E reply \in GuiReplies :
       \E company \in {job.company, "Acme"} :
           LET pair == generate_documents(api_key, reply)
               named == [session EXCEPT !.company_name = Some(job.company),
                                        !.role_title = Some(job.role)]
           IN  /\ job_text' = job.text
               /\ resume_text' = (IF job.fetched /\ resume_read THEN ResumeAny ELSE <<>>)
               /\ response' = (IF job.fetched /\ resume_read /\ api_key
                               THEN reply ELSE NoReply)
               /\ documents' = (IF job.fetched /\ resume_read THEN pair ELSE NoDocuments)
               /\ called' =
                      (IF job.job_url THEN <<"fetch_job_description">> ELSE <<>>)
                          \o (IF job.fetched THEN <<"extract_text_from_file">> ELSE <<>>)
                          \o (IF job.fetched /\ resume_read
                              THEN <<"generate_documents">> ELSE <<>>)
                          \o (IF job.fetched /\ resume_read /\ pair.returns
                              THEN <<"compute_fit_score">> ELSE <<>>)
               /\ IF ~job.fetched
                  THEN /\ gui_raise("Error fetching job description: {e}")
                       /\ UNCHANGED session
                  ELSE IF ~resume_read
                  THEN /\ gui_raise("Error reading resume file: {e}")
                       /\ session' = named
                  ELSE IF ~pair.returns
                  THEN /\ printed' = <<Message(pair.exit)>>
                       /\ rendered' = Rendered("none", "SystemExit")
                       /\ mpc' = "form"
                       /\ session' = named
                       /\ UNCHANGED score_vars
                  ELSE /\ session' =
                              [named EXCEPT
                                  !.documents = Some([run |-> run', resume |-> pair.resume,
                                                      cover_letter |-> pair.cover_letter]),
                                  !.company_name = Some(company)]
                       /\ jd_text' = job.text
                       /\ resume_md' = pair.resume
                       /\ pc' = "call"
                       /\ mpc' = "scoring"
                       /\ printed' = <<>>
                       /\ UNCHANGED <<jd_tokens, res_tokens, score, breakdown, rendered>>
    /\ UNCHANGED files
    /\ UNCHANGED fetch_vars

\* st.session_state.fit_score = details, the files saved and
\* st.session_state.created_files = created_files
gui_store ==
    /\ mpc = "scoring"
    /\ pc = "done"
    /\ \E disk \in BOOLEAN : \E pdfs \in {<<>>, <<"resume.pdf", "cover_letter.pdf">>} :
           IF disk
           THEN /\ files' = files \cup {"resume.md", "cover_letter.md"} \cup Range(pdfs)
                /\ session' =
                       [session EXCEPT
                           !.fit_score = Some([run |-> run, details |-> breakdown]),
                           !.created_files = <<"resume.md", "cover_letter.md">> \o pdfs]
                /\ UNCHANGED printed
           ELSE /\ printed' = <<Message("Error saving files: {e}")>>
                /\ session' =
                       [session EXCEPT
                           !.fit_score = Some([run |-> run, details |-> breakdown])]
                /\ UNCHANGED files
    /\ mpc' = "display"
    /\ UNCHANGED <<earlier, job_text, resume_text, response, documents, called,
                   rendered, run>>
    /\ UNCHANGED <<score_vars, fetch_vars>>

\* a run of the script without a click on Generate
gui_rerun ==
    /\ mpc = "form"
    /\ mpc' = "display"
    /\ printed' = <<>>
    /\ UNCHANGED <<earlier, job_text, resume_text, response, documents, files, called,
                   session, rendered, run>>
    /\ UNCHANGED <<score_vars, fetch_vars>>

\* the truth value of st.session_state.fit_score: None and {} are false
has_fit_score(fit_score) ==
    fit_score # None /\ DOMAIN fit_score[1].details # {}

\* if st.session_state.documents and st.session_state.fit_score: the results
gui_display ==
    /\ mpc = "display"
    /\ rendered' = (IF session.documents # None /\ has_fit_score(session.fit_score)
                    THEN Rendered("results", "")
                    ELSE Rendered("none", ""))
    /\ mpc' = "form"
    /\ UNCHANGED <<earlier, job_text, resume_text, response, documents, files, printed,
                   called, session, run>>
    /\ UNCHANGED <<score_vars, fetch_vars>>

GuiNext ==
    \/ gui_generate
    \/ compute_fit_score
    \/ gui_store
    \/ gui_rerun
    \/ gui_display

SpecGui == GuiInit /\ [][GuiNext]_vars

(***************************************************************************)
(* What the properties are stated with.                                    *)
(***************************************************************************)
Abs(x) == IF x < 0 THEN -x ELSE x

Done == pc = "done"

Scored == Done /\ DOMAIN breakdown # {}

Keys == {"keyword_coverage", "seniority", "numeric", "overall"}

Overlap == jd_tokens \cap res_tokens

\* text[i..j] is one letter followed by one or more token characters
IsRun(text, i, j) ==
    /\ i < j
    /\ text[i] \in Letter
    /\ \A k \in (i + 1)..j : text[k] \in {"+", ".", "#", "/", "-"} \cup Letter \cup Digit

\* the runs that no longer run contains: not extensible to the right, and no
\* run that ends at j starts further left
MaximalRuns(text) ==
    {r \in (1..Len(text)) \X (1..Len(text)) :
        /\ IsRun(text, r[1], r[2])
        /\ ~(r[2] < Len(text) /\ IsRun(text, r[1], r[2] + 1))
        /\ ~\E h \in 1..(r[1] - 1) : IsRun(text, h, r[2])}

\* the token set as the specification words it
TokenSet(text) ==
    {Lower(SubSeq(text, r[1], r[2])) : r \in MaximalRuns(text)} \ STOPWORDS

\* the text holds a digit, then whitespace only, then "years" in any casing
HasYearsFigure(text) ==
    \E i \in 1..Len(text) : \E j \in (i + 1)..Len(text) :
        /\ text[i] \in Digit
        /\ \A k \in (i + 1)..j : text[k] \in Whitespace
        /\ j + 5 <= Len(text)
        /\ Lower(SubSeq(text, j + 1, j + 5)) = <<"y", "e", "a", "r", "s">>

SeniorityTerms == Range(SENIORITY)

\* t occurs in text as a contiguous piece
Contains(text, t) ==
    \E i \in 0..(Len(text) - Len(t)) : SubSeq(text, i + 1, i + Len(t)) = t

(***************************************************************************)
(* C1.  On the end-to-end scenario the scorer finds 6 of the 7 job tokens  *)
(* in the resume and returns keyword_coverage 86, seniority 100, numeric   *)
(* 80 and overall 92.  The code returns 4 of 7, 57 and 81: "Engineer." and *)
(* "required." of the job and "AWS." of the resume keep their full stop.   *)
(***************************************************************************)
C1_EndToEnd ==
    (Done /\ jd_text = JobEndToEnd /\ resume_md = ResumeEndToEnd) =>
        /\ Cardinality(jd_tokens) = 7
        /\ Cardinality(Overlap) = 6
        /\ DOMAIN breakdown = Keys
        /\ breakdown["keyword_coverage"] = 86
        /\ breakdown["seniority"] = 100
        /\ breakdown["numeric"] = 80
        /\ breakdown["overall"] = 92
        /\ score = 92

(***************************************************************************)
(* C2.  With a non-empty job-token set, overall is the integer nearest to  *)
(* keyword_coverage*0.4 + seniority*0.2 + numeric*0.1 + 30*has_any_overlap *)
(* of the same breakdown (in tenths: 4*kc + 2*sen + num + 300*any).        *)
(***************************************************************************)
C2_OverallFormula ==
    (Done /\ jd_tokens # {}) =>
        /\ DOMAIN breakdown = Keys
        /\ LET tenths == 4 * breakdown["keyword_coverage"] + 2 * breakdown["seniority"]
                           + breakdown["numeric"]
                           + 300 * (IF Overlap # {} THEN 1 ELSE 0)
           IN  /\ Abs(10 * breakdown["overall"] - tenths) < 5
               /\ score = breakdown["overall"]

\* a scored call with an overlap whose weighted sum is not a whole number
C2_Witness ==
    /\ Scored
    /\ Overlap # {}
    /\ (4 * breakdown["keyword_coverage"] + 2 * breakdown["seniority"]
            + breakdown["numeric"]) % 10 # 0

(***************************************************************************)
(* C3.  With a non-empty job-token set J, keyword_coverage is in 0..100    *)
(* and is an integer nearest to 100 * |J \cap R| / |J|; resume tokens      *)
(* outside J play no part.                                                 *)
(***************************************************************************)
C3_KeywordCoverage ==
    (Done /\ jd_tokens # {}) =>
        /\ DOMAIN breakdown = Keys
        /\ breakdown["keyword_coverage"] \in 0..100
        /\ 2 * Abs(breakdown["keyword_coverage"] * Cardinality(jd_tokens)
                     - 100 * Cardinality(Overlap)) <= Cardinality(jd_tokens)

\* a partial match by a resume that also has tokens of its own
C3_Witness ==
    /\ Scored
    /\ Overlap # {}
    /\ jd_tokens \ res_tokens # {}
    /\ res_tokens \ jd_tokens # {}

(***************************************************************************)
(* C4.  With a non-empty job-token set, seniority is 100 if no seniority   *)
(* term is a job token, 100 if a seniority term that is a job token is     *)
(* also a resume token, and 40 otherwise; "Senior Engineer role" against   *)
(* "Junior Developer" gives 40.                                            *)
(***************************************************************************)
C4_Seniority ==
    (Done /\ jd_tokens # {}) =>
        /\ DOMAIN breakdown = Keys
        /\ breakdown["seniority"] =
               IF SeniorityTerms \cap jd_tokens = {} THEN 100
               ELSE IF SeniorityTerms \cap jd_tokens \cap res_tokens # {} THEN 100
               ELSE 40
        /\ (jd_text = JobSeniorRole /\ resume_md = ResumeJunior)
               => breakdown["seniority"] = 40

\* the mismatch scenario: both texts name a level, not the same one
C4_Witness ==
    /\ Scored
    /\ jd_text = JobSeniorRole
    /\ resume_md = ResumeJunior
    /\ SeniorityTerms \cap jd_tokens # {}
    /\ SeniorityTerms \cap res_tokens # {}
    /\ breakdown["seniority"] = 40

(***************************************************************************)
(* C5.  numeric is 100 if the job text has no "N years" figure, else 80 if *)
(* the resume text has one (the numbers are not compared: "5 years         *)
(* experience required" against "3 years experience" gives 80), else 30.   *)
(***************************************************************************)
C5_Numeric ==
    Scored =>
        /\ breakdown["numeric"] =
               IF ~HasYearsFigure(jd_text) THEN 100
               ELSE IF HasYearsFigure(resume_md) THEN 80
               ELSE 30
        /\ (jd_text = JobFiveYears /\ resume_md = ResumeThreeYears)
               => breakdown["numeric"] = 80

\* the numeric scenario: two different figures
C5_Witness ==
    /\ Scored
    /\ jd_text = JobFiveYears
    /\ resume_md = ResumeThreeYears
    /\ breakdown["numeric"] = 80

(***************************************************************************)
(* C6.  If the job text has no token (the empty text, or only stopwords,   *)
(* digits and single letters), the call returns overall 0 and an empty     *)
(* breakdown, whatever the resume.                                         *)
(***************************************************************************)
C6_EmptyJobTokens ==
    (Done /\ TokenSet(jd_text) = {}) =>
        /\ score = 0
        /\ DOMAIN breakdown = {}

\* a job text of stopwords, digits and single letters, and a resume with tokens
C6_Witness ==
    /\ Done
    /\ jd_text = JobNoTokens
    /\ res_tokens # {}
    /\ score = 0

(***************************************************************************)
(* C7 as claimed.  For every pair of texts the breakdown has the four      *)
(* integer-valued keys and the headline value is its overall entry.        *)
(***************************************************************************)
C7_AlwaysFourKeys ==
    Done =>
        /\ DOMAIN breakdown = Keys
        /\ \A k \in Keys : breakdown[k] \in Int
        /\ score = breakdown["overall"]

(***************************************************************************)
(* C7 as amended.  For every pair of texts whose job-token set is not      *)
(* empty, the breakdown has the four integer-valued keys and the headline  *)
(* value is its overall entry.                                             *)
(***************************************************************************)
C7_FourKeysWhenJobTokens ==
    (Done /\ jd_tokens # {}) =>
        /\ DOMAIN breakdown = Keys
        /\ \A k \in Keys : breakdown[k] \in Int
        /\ score = breakdown["overall"]

\* a scored call whose overall differs from each of its sub-scores
C7_Witness ==
    /\ Scored
    /\ jd_tokens # {}
    /\ \A k \in Keys \ {"overall"} : breakdown[k] # breakdown["overall"]

C9_FullOverlap ==
    (Done /\ jd_tokens # {}
          /\ \A t \in jd_tokens : Contains(Lower(resume_md), t)) =>
        /\ DOMAIN breakdown = Keys
        /\ breakdown["keyword_coverage"] = 100

(***************************************************************************)
(* C10.  The token set of a text is the set of its lowercased maximal runs *)
(* of one letter followed by one or more of letters, digits, + . # / -,    *)
(* minus the stopwords; no stopword, "the", "and" and "for" among them, is *)
(* in the job-token set or the resume-token set.                           *)
(***************************************************************************)
C10_TokenSets ==
    Done =>
        /\ jd_tokens = TokenSet(jd_text)
        /\ res_tokens = TokenSet(resume_md)
        /\ (jd_tokens \cup res_tokens) \cap STOPWORDS = {}
        /\ (jd_tokens \cup res_tokens) \cap { <<"t", "h", "e">>, <<"a", "n", "d">>, <<"f", "o", "r">> } = {}

\* stopwords in several casings, a repeated token, tokens with symbols
C10_Witness ==
    /\ Done
    /\ jd_text = JobSymbols
    /\ resume_md = ResumeSymbols
    /\ Contains(jd_text, <<"T", "h", "e", " ", "T", "H", "E", " ", "t", "h", "e">>)
    /\ <<"c", "+", "+">> \in Overlap
    /\ <<"n", "o", "d", "e", ".", "j", "s", "-", "d", "e", "v">> \in jd_tokens
    /\ <<"m", "i", "d", "-", "l", "e", "v", "e", "l">> \in res_tokens

(***************************************************************************)
(* C12.  compute_fit_score is total: the step of every call ends with the  *)
(* call returned, never with an exception raised (the division by the      *)
(* number of job tokens is never a division by zero).                      *)
(***************************************************************************)
C12_Total == [][pc = "call" => pc' = "done"]_vars

\* a call that returned although the job text, not empty, has no token
C12_Witness ==
    /\ Done
    /\ Len(jd_text) > 0
    /\ jd_tokens = {}
    /\ Len(resume_md) > 0
    /\ DOMAIN breakdown = {}

(***************************************************************************)
(* What the properties of the extractor are stated with.                   *)
(***************************************************************************)
Returned == fpc = "returned"

Raised == fpc = "raised"

Blank == {" ", "\t", "\n"}

\* no newline, no tab, no two blanks in a row, no blank at either end
WhitespaceNormal(t) ==
    /\ \A i \in DOMAIN t : t[i] \notin {"\n", "\t"}
    /\ \A i \in DOMAIN t : i > 1 => ~(t[i] \in Blank /\ t[i - 1] \in Blank)
    /\ t # <<>> => (t[1] \notin Blank /\ t[Len(t)] \notin Blank)

\* the characters of t that are not blank, each with whether a blank follows
Solid(t) ==
    SelectSeq([i \in DOMAIN t |-> [c |-> t[i], gap |-> i < Len(t) /\ t[i + 1] \in Blank]],
              LAMBDA m : m.c \notin Blank)

\* r is t whitespace-normalized: the same words in the same order, one space
\* between two words and nothing around them
NormalizedOf(r, t) ==
    LET a == Solid(r)
        b == Solid(t)
    IN  /\ WhitespaceNormal(r)
        /\ Len(a) = Len(b)
        /\ \A k \in DOMAIN a :
               /\ a[k].c = b[k].c
               /\ k < Len(a) => a[k].gap = b[k].gap

\* the strings of the nodes, a space between two of them
TextOf(nodes) == join(<<" ">>, Texts(nodes))

KnownContainers ==
    {".description__text", ".show-more-less-html__markup", "#job-details",
     ".jobs-description__content", ".jobs-box__html-content"}

HasContainer(page) == \E i \in DOMAIN page : page[i].sel \in KnownContainers

\* the nodes of the first element, in the document, of the first selector, in
\* the list, that the page has an element of
FirstContainer(page) ==
    LET first == Min({k \in DOMAIN selectors :
                         \E i \in DOMAIN page : page[i].sel = selectors[k]})
        at == Min({i \in DOMAIN page : page[i].sel = selectors[first]})
    IN  SelectSeq(page, LAMBDA n : n.sel = page[at].sel /\ n.elem = page[at].elem)

FromLinkedIn == Contains(src, <<"l", "i", "n", "k", "e", "d", "i", "n", ".", "c", "o", "m">>)

(***************************************************************************)
(* C13.  A page that contains a known description container gives exactly  *)
(* the whitespace-normalized text of that container, whatever navigation or *)
(* advertisement surrounds it.  The code looks for the containers only when *)
(* the source string contains "linkedin.com": the same page saved as       *)
(* job.html goes to the generic heuristic.                                 *)
(***************************************************************************)
C13_AnySource ==
    (Returned /\ HasContainer(html)) => NormalizedOf(result, TextOf(FirstContainer(html)))

\* C13 as the code has it: for a source whose string contains "linkedin.com",
\* a page with a known container gives the whitespace-normalized text of the
\* first element of the first selector of the list that matches
C13_LinkedInSource ==
    (Returned /\ FromLinkedIn /\ HasContainer(html))
        => NormalizedOf(result, TextOf(FirstContainer(html)))

\* a LinkedIn page with two containers, a menu and a script around them
C13_Witness ==
    /\ Returned
    /\ src = LinkedInUrl
    /\ html = TwoContainersPage
    /\ path = "selector"
    /\ result = <<"S", "e", "n", "i", "o", "r", " ", "E", "n", "g", "i", "n", "e", "e", "r", " ", "P", "y", "t", "h", "o", "n", " ", "a", "n", "d", " ", "S", "Q", "L">>

\* the page has one paragraph of 500 characters, at i, and besides it two or
\* more paragraphs, all of them shorter
OneLongParagraph(page, i) ==
    /\ i \in DOMAIN page
    /\ Len(page[i].text) = 500
    /\ Len(page) >= 3
    /\ \A j \in DOMAIN page : j # i => Len(page[j].text) < 500

(***************************************************************************)
(* C14.  From a source that is not a known job board, a page of one        *)
(* paragraph of 500 characters and several shorter ones gives the text of  *)
(* the 500-character paragraph only, in every copy of the extractor.  The  *)
(* three copies without readability split the page text at empty lines,    *)
(* which get_text("\n", strip=True) never puts between two paragraphs, and  *)
(* return the text of all the paragraphs.                                  *)
(***************************************************************************)
C14_LongParagraphOnly ==
    \A i \in DOMAIN html :
        (Returned /\ ~FromLinkedIn /\ OneLongParagraph(html, i))
            => NormalizedOf(result, html[i].text)

\* the text that the document searched has outside scripts and styles
VisibleText(doc) == TextOf(SelectSeq(doc, LAMBDA n : n.kind # "script"))

\* the candidate text blocks: the strings of readability's summary, or the
\* pieces of the page text between empty lines
CandidateBlocks ==
    IF variant = "job_apply_assistant"
    THEN Texts(soup)
    ELSE split(get_text(soup), <<"\n", "\n">>)

\* the call went past the known containers
GenericPath == Returned /\ ~(FromLinkedIn /\ HasContainer(html))

\* the largest block is returned if it has more than 100 characters, the
\* text of doc if it has not
LargestOrAll(doc) ==
    LET blocks == CandidateBlocks
        longest == Max({Len(blocks[k]) : k \in DOMAIN blocks} \cup {0})
    IN  IF longest > 100
        THEN \E k \in DOMAIN blocks :
                 Len(blocks[k]) = longest /\ NormalizedOf(result, blocks[k])
        ELSE NormalizedOf(result, VisibleText(doc))

(***************************************************************************)
(* C15.  On the generic path the largest candidate block is returned only  *)
(* if it has more than 100 characters; if it has 100 or fewer, all visible *)
(* page text is returned, whitespace-normalized.  In job_apply_assistant.py *)
(* the text returned then is that of readability's summary, which need not *)
(* hold the navigation and advertisement text of the page.                 *)
(***************************************************************************)
C15_AllPageText == GenericPath => LargestOrAll(html)

\* C15 as the code has it: the largest candidate block is returned only if
\* it has more than 100 characters; if it has 100 or fewer, all the text of
\* the document searched is returned, whitespace-normalized: the page in
\* the copies without readability, readability's summary of the page in
\* job_apply_assistant.py
C15_AllTextSearched == GenericPath => LargestOrAll(soup)

\* a block of exactly 100 characters is the largest: all the text returned
C15_Witness ==
    /\ Returned
    /\ variant = "job_apply_assistant"
    /\ html = <<HundredNode, ShortNode>>
    /\ path = "fallback"
    /\ result = Block(100, "c") \o <<" ", "A", "p", "p", "l", "y", " ", "n", "o", "w">>

(***************************************************************************)
(* C16.  Every string returned, on each of the three paths, is whitespace- *)
(* normalized: no newline, no tab, no two whitespace characters in a row,  *)
(* no whitespace at either end.                                            *)
(***************************************************************************)
C16_ReturnedNormalized ==
    Returned => (path \in {"selector", "largest", "fallback"} /\ WhitespaceNormal(result))

\* a returned block whose string began with a newline and ended with a space
C16_Witness ==
    /\ Returned
    /\ variant = "job_apply_assistant"
    /\ path = "largest"
    /\ html = <<ShortNode, HundredOneNode>>
    /\ result = Block(101, "d")

\* the messages of the errors
AccessDeniedMessage ==
    "Access denied (403 Forbidden). The website may be blocking automated access. Try saving the job posting as HTML and uploading it instead."

NotFoundMessage ==
    "Job posting not found (404 Not Found). Please check the URL and try again."

HttpErrorMessage == "HTTP error when accessing URL: {e}"

TimeoutMessage == "Request timed out. The server may be slow or unreachable."

ConnectionMessage ==
    "Connection error. Please check your internet connection and the URL."

\* the classes whose instances are instances of ValueError
ValueErrors == {"ValueError", "UnicodeError", "UnicodeDecodeError", "MissingSchema"}

BeginsWithHttp ==
    Len(src) >= 4 /\ src[1] = "h" /\ src[2] = "t" /\ src[3] = "t" /\ src[4] = "p"

(***************************************************************************)
(* C17.  For a URL source a response with status 403 ends the call with    *)
(* the access-denied error, whose message suggests saving the posting as   *)
(* HTML and uploading it; one with status 404 with the not-found error;    *)
(* one with any other error status with the generic error that carries the *)
(* cause.  No text is returned in any of these cases.                      *)
(***************************************************************************)
C17_HttpStatus ==
    status >= 400 =>
        /\ BeginsWithHttp
        /\ Raised
        /\ result = <<>>
        /\ error.class = "ValueError"
        /\ status = 403 => error.msg = AccessDeniedMessage
        /\ status = 404 => error.msg = NotFoundMessage
        /\ status \notin {403, 404} =>
               (error.msg = HttpErrorMessage /\ error.cause = "HTTPError")

\* the only request of a call answered with 403
C17_Witness ==
    /\ Raised
    /\ src = OtherUrl
    /\ gets = 1
    /\ status = 403
    /\ failure = "HTTPError"
    /\ error.msg = AccessDeniedMessage

(***************************************************************************)
(* C18.  For a URL source every timeout, while connecting or while reading *)
(* the response, ends the call with the Timeout error ("Request timed      *)
(* out..."), and every connection failure with the ConnectionFailure error *)
(* ("Connection error..."); no timeout is reported as a connection         *)
(* failure.  A connect timeout is a requests ConnectionError as well as a  *)
(* Timeout, and the clause for ConnectionError comes first.                *)
(***************************************************************************)
C18_TimeoutsAndConnections ==
    /\ failure \in {"ConnectTimeout", "ReadTimeout"} =>
           (Raised /\ error.msg = TimeoutMessage)
    /\ failure = "ConnectionError" => (Raised /\ error.msg = ConnectionMessage)

(***************************************************************************)
(* C19.  Every failure inside fetch_job_description (HTTP error,           *)
(* connection error, timeout, other transport error, missing file, other   *)
(* read error, parse error, unexpected exception) reaches the caller as a  *)
(* ValueError with a message: after a failure the call never returns, with *)
(* or without text, and no exception of another type leaves the function.  *)
(***************************************************************************)
C19_ValueError ==
    /\ failure # "" =>
           /\ Raised
           /\ result = <<>>
           /\ error.class \in ValueErrors
           /\ error.msg # ""
    /\ Raised => (failure # "" /\ error.class \in ValueErrors)
    /\ Returned => (failure = "" /\ error.class = "")

\* an exception that no inner clause names, from inside requests
C19_Witness ==
    /\ Raised
    /\ failure = "RuntimeError"
    /\ error.class = "ValueError"
    /\ error.msg = "Unexpected error: {e}"
    /\ error.cause = "RuntimeError"

SelectorOrder ==
    <<".description__text", ".show-more-less-html__markup", "#job-details",
      ".jobs-description__content", ".jobs-box__html-content">>

\* selector k of the order matches an element of the page
Matched(page, k) == \E i \in DOMAIN page : page[i].sel = SelectorOrder[k]

\* the nodes of the first element of the page that selector k matches
FirstElement(page, k) ==
    LET at == Min({i \in DOMAIN page : page[i].sel = SelectorOrder[k]})
    IN  SelectSeq(page, LAMBDA n : n.sel = SelectorOrder[k] /\ n.elem = page[at].elem)

(***************************************************************************)
(* C25.  On the known-selector path the selectors are tried in the order   *)
(* .description__text, .show-more-less-html__markup, #job-details,         *)
(* .jobs-description__content, .jobs-box__html-content; the result is the  *)
(* normalized text of the first selector in that order that matches an     *)
(* element, a later selector is used only when no earlier one matches, and *)
(* when none matches the generic heuristic gives the result.               *)
(***************************************************************************)
C25_SelectorOrder ==
    (Returned /\ FromLinkedIn) =>
        IF \E k \in DOMAIN SelectorOrder : Matched(html, k)
        THEN /\ path = "selector"
             /\ \E k \in DOMAIN SelectorOrder :
                    /\ Matched(html, k)
                    /\ \A j \in 1..(k - 1) : ~Matched(html, j)
                    /\ NormalizedOf(result, TextOf(FirstElement(html, k)))
        ELSE /\ path \in {"largest", "fallback"}
             /\ LargestOrAll(soup)

\* the fifth selector matches earlier in the document than the third
C25_Witness ==
    /\ Returned
    /\ src = LinkedInUrl
    /\ html = LaterSelectorPage
    /\ path = "selector"
    /\ result = <<"R", "e", "m", "o", "t", "e", " ", "r", "o", "l", "e">>

(***************************************************************************)
(* C28.  The known selectors are consulted if and only if "linkedin.com"   *)
(* occurs somewhere in the source string, a URL or the path of a local     *)
(* file; for every other source they are never consulted, even when the    *)
(* page has the containers, and the generic heuristic gives the result.    *)
(***************************************************************************)
C28_SubstringOfSource ==
    Returned =>
        /\ path = "selector" <=> (FromLinkedIn /\ HasContainer(html))
        /\ ~FromLinkedIn => (path \in {"largest", "fallback"} /\ LargestOrAll(soup))

\* a local file whose name holds "linkedin.com", read and searched by selector
C28_Witness ==
    /\ Returned
    /\ src = SavedLinkedInPage
    /\ reads = 1
    /\ gets = 0
    /\ HasContainer(html)
    /\ Len(html) > 1
    /\ path = "selector"

(***************************************************************************)
(* C26.  The bonus for any overlap separates the overall values into       *)
(* bands: overall is 0 if and only if the job has no token; with job       *)
(* tokens and an empty overlap it is one of 11, 16, 18, 23, 28, 30; with a *)
(* non-empty overlap it is at least 41 and at most 100.  So every pair     *)
(* with a shared token scores higher than every pair without one.          *)
(***************************************************************************)
C26_Bands ==
    Done =>
        /\ score = 0 <=> jd_tokens = {}
        /\ (jd_tokens # {} /\ Overlap = {}) => score \in {11, 16, 18, 23, 28, 30}
        /\ Overlap # {} => (41 <= score /\ score <= 100)
        /\ DOMAIN breakdown # {} => breakdown["overall"] = score

\* no shared token although both texts have a years figure: 8 + 8
C26_Witness ==
    /\ Done
    /\ jd_tokens # {}
    /\ Overlap = {}
    /\ res_tokens # {}
    /\ breakdown["seniority"] = 40
    /\ breakdown["numeric"] = 80
    /\ score = 16

(***************************************************************************)
(* C27.  compute_fit_score is monotone in the resume for a fixed job text: *)
(* if the token set of resume B contains that of resume A, and B has an    *)
(* "N years" figure whenever A has one, then keyword_coverage, seniority,  *)
(* numeric and overall for B are each at least what they are for A.        *)
(***************************************************************************)
C27_Monotone ==
    (/\ Done
     /\ earlier # <<>>
     /\ earlier[1].res_tokens \subseteq res_tokens
     /\ HasYearsFigure(earlier[1].resume) => HasYearsFigure(resume_md))
        => /\ score >= earlier[1].score
           /\ DOMAIN breakdown = DOMAIN earlier[1].breakdown
           /\ \A k \in DOMAIN breakdown : breakdown[k] >= earlier[1].breakdown[k]

\* the second resume adds a junior role to the first, for a senior job, and
\* the first one matched
C27_Witness ==
    /\ Done
    /\ earlier # <<>>
    /\ jd_text = JobSeniorRole
    /\ earlier[1].resume = ResumeEndToEnd
    /\ resume_md = ResumeEndToEnd \o <<" ">> \o ResumeJunior
    /\ earlier[1].res_tokens \subseteq res_tokens
    /\ earlier[1].res_tokens # res_tokens
    /\ earlier[1].breakdown["seniority"] = 100
    /\ breakdown["seniority"] = 100
    /\ score = earlier[1].score

(***************************************************************************)
(* What the properties of the command line are stated with.                *)
(***************************************************************************)
Called(f) == \E i \in DOMAIN called : called[i] = f

Printed(text) == \E i \in DOMAIN printed : printed[i].text = text

FetchFailed == Printed("Error fetching job description: {e}")

(***************************************************************************)
(* C21.  In the command line a failure of fetch_job_description aborts     *)
(* everything downstream: after it generate_documents is never called,     *)
(* compute_fit_score is never called and no file is written; and           *)
(* compute_fit_score is called only after both the extraction and the      *)
(* generation have succeeded.                                              *)
(***************************************************************************)
C21_FetchFailureAborts ==
    /\ FetchFailed =>
           /\ mpc = "returned"
           /\ called = <<"fetch_job_description">>
           /\ files = {}
           /\ pc = "idle"
    /\ (Called("compute_fit_score") \/ pc # "idle") =>
           /\ ~FetchFailed
           /\ documents.returns
           /\ called = <<"fetch_job_description", "extract_text_from_file",
                         "generate_documents", "compute_fit_score">>
           /\ jd_text = job_text
           /\ resume_md = documents.resume
    /\ files # {} => Called("compute_fit_score")

\* a run that ended at the failed extraction
C21_Witness ==
    /\ FetchFailed
    /\ mpc = "returned"
    /\ Len(printed) = 1
    /\ Len(called) = 1

(***************************************************************************)
(* C22.  generate_documents returns a (resume, cover_letter) pair only     *)
(* when the reply of the service consists of exactly the two text fields   *)
(* resume and cover_letter; any other shape (not an object, a missing      *)
(* field, a field that is a list, an object or a number) is a hard failure *)
(* of the workflow and never gives a pair.  The code converts a list, an   *)
(* object and a number into text and ignores further fields.               *)
(***************************************************************************)
C22_ExactlyTwoTexts ==
    Called("generate_documents") =>
        /\ documents.returns <=>
               /\ response.shape = "object"
               /\ response.resume.kind = "str"
               /\ response.cover_letter.kind = "str"
               /\ ~response.extra
        /\ ~documents.returns => mpc = "exited"

\* the text that a value of the reply stands for
TextFor(value) ==
    CASE value.kind = "str" -> value.items[1]
      [] value.kind = "list" -> join(<<"\n">>, value.items)
      [] value.kind = "dict" -> <<"{", "\n", " ", " ", "\"", "s", "u", "m", "m", "a", "r", "y", "\"", ":", " ", "\"", "J", "u", "n", "i", "o", "r", " ", "D", "e", "v", "e", "l", "o", "p", "e", "r", "\"", "\n", "}">>
      [] value.kind = "int" -> <<"4", "2">>

\* C22 as the code has it: a pair is returned exactly when the reply is a JSON
\* object that has the fields resume and cover_letter, whatever else it has,
\* and neither field is a list with an item that is not a string; a field
\* that is a list of strings, an object or a number is converted into text;
\* every other reply ends the program without a pair
C22_BothFieldsConverted ==
    Called("generate_documents") =>
        /\ documents.returns <=>
               /\ response.shape = "object"
               /\ response.resume.kind \in {"str", "list", "dict", "int"}
               /\ response.cover_letter.kind \in {"str", "list", "dict", "int"}
        /\ documents.returns =>
               /\ documents.resume = TextFor(response.resume)
               /\ documents.cover_letter = TextFor(response.cover_letter)
        /\ ~documents.returns =>
               /\ mpc = "exited"
               /\ ~Called("compute_fit_score")
               /\ files = {}

\* a reply with a list of two strings as resume and a third field
C22_Witness ==
    /\ Called("generate_documents")
    /\ documents.returns
    /\ response.resume.kind = "list"
    /\ Len(response.resume.items) = 2
    /\ response.extra
    /\ documents.resume = ResumeJunior \o <<"\n">> \o ResumeThreeYears

(***************************************************************************)
(* C23.  Every run of the command line in which the documents were         *)
(* generated and their markdown files written ends by printing the         *)
(* FitScore: the overall value and the keyword-coverage, seniority and     *)
(* numeric sub-scores; no error is reported after the files were created.  *)
(* For a job text without a token the scorer returns an empty breakdown,   *)
(* and details['overall'] raises KeyError after "Files created".           *)
(***************************************************************************)
C23_EndsWithFitScore ==
    (mpc = "returned" /\ {"resume.md", "cover_letter.md"} \subseteq files) =>
        /\ Len(printed) >= 5
        /\ LET n == Len(printed)
           IN  /\ printed[n - 4].text = "FitScore:"
               /\ printed[n - 3] = Line("Overall: {} / 100", score)
               /\ printed[n - 2].text = "Keyword coverage: {}%"
               /\ printed[n - 1].text = "Seniority match: {}%"
               /\ printed[n].text = "Numeric match: {}%"
        /\ ~Printed("Error saving files: {e}")

(***************************************************************************)
(* C29.  In job_apply_gui.py a Generate run that fails before new          *)
(* documents are produced (the job fetch fails or the resume cannot be     *)
(* read) leaves the whole stored result unchanged: session_state.documents,*)
(* fit_score, company_name, role_title and created_files keep the values   *)
(* they had at the click.  The handler stores company_name and role_title  *)
(* before it reads the resume.                                             *)
(***************************************************************************)
C29_FailedRunKeepsResult ==
    (Printed("Error fetching job description: {e}")
         \/ Printed("Error reading resume file: {e}")) =>
        /\ session.documents = earlier[1].documents
        /\ session.fit_score = earlier[1].fit_score
        /\ session.company_name = earlier[1].company_name
        /\ session.role_title = earlier[1].role_title
        /\ session.created_files = earlier[1].created_files

(***************************************************************************)
(* C30.  In replit_app.main, whenever the results section is rendered      *)
(* (session_state.documents is set), the stored fit_score is a (score,     *)
(* details) pair written by the same run as the documents, and details     *)
(* has the keys keyword_coverage, seniority and numeric, so that the       *)
(* rendering never fails for a job description that the form accepts.      *)
(* For a job description without a token the stored details are empty and  *)
(* the rendering raises KeyError.                                          *)
(***************************************************************************)
C30_ResultsRender ==
    (mpc = "form" /\ rendered # <<>> /\ rendered.section = "results") =>
        /\ session.documents # None
        /\ session.fit_score # None
        /\ session.fit_score[1].run = session.documents[1].run
        /\ {"keyword_coverage", "seniority", "numeric"}
               \subseteq DOMAIN session.fit_score[1].details
        /\ rendered.raised = ""


====
